---- MODULE Spec2Model ----
(***************************************************************************)
(* Model of github.com/weiwenchen2022/container: the generic binary        *)
(* min-heap Heap[E] (package heap) with its optional setIndex callback.    *)
(*                                                                         *)
(* Two clients of the heap are modelled, both taken from the repository,   *)
(* and a behaviour follows one of them:                                    *)
(*   - Heap[int] built by New(less) or New(less, WithData(s)), without a   *)
(*     callback, as used throughout heap_test.go;                          *)
(*   - the priority queue of example_pq_test.go, a heap of Item pointers   *)
(*     built by New(Item.Less, WithSetIndex(Item.SetIndex)), empty or     *)
(*     WithData of items whose index the caller has set.                   *)
(* Slice indices are 0-based as in the Go source; At(s, i) reads s[i].     *)
(* Calls against a precondition (an index outside the heap, Pop and Peek   *)
(* on an empty heap) are modelled with the bounds checks of the Go         *)
(* run time; a panic ends the behaviour.                                   *)
(*                                                                         *)
(* The doubly linked list List[E] (package list) is modelled as a memory   *)
(* of elements and root elements with their next, prev and list fields;    *)
(* SpecList is the specification of its methods.                           *)
(***************************************************************************)
EXTENDS Integers, Sequences, FiniteSets

VARIABLES
    h,            \* the Heap value: fields less, s, setIndex, and the log
                  \* `calls` of setIndex invocations made by the last method
    index,        \* Item.index of every item (written by Item.SetIndex)
    removed,      \* items taken out by Pop/Remove and not pushed again
    established,  \* Init has been called, or the heap was created empty
    net,          \* {c}, c the elements supplied and pushed less those popped
                  \* and removed: k - m after k pushes and m pops on a heap
                  \* created empty
    op,           \* the method called last
    arg,          \* its argument
    ret,          \* its result
    pre,          \* the Heap value before that call
    panicked,     \* that call ended in a run-time panic instead of returning
    preset,       \* the queue was built from items whose index the caller set
    ls,           \* package list: the fields of every Element and List
    lcall         \* the List method called last, its receiver and arguments,
                  \* and ls before the call

heapvars ==
    <<h, index, removed, established, net, op, arg, ret, pre, panicked, preset>>

vars == <<heapvars, ls, lcall>>

(* ------------------------------ bounds -------------------------------- *)
MaxLen == 6        \* longest int heap explored
MaxKey == 2        \* int elements are 0..MaxKey
MaxItems == 3      \* number of distinct Item pointers
MaxPriority == 2   \* Item.priority is 1..MaxPriority
MaxOver == 2       \* out-of-range indices tried: this far below 0 and past Len()
MaxElems == 2      \* list elements ever allocated
MaxSlice == 2      \* longest slice handed to PushBackSlice and PushFrontSlice

Keys == 0..MaxKey
Values == 1..MaxItems
Priorities == 1..MaxPriority
Items == [value : Values, priority : Priorities]

NoValue == "none"  \* ret of a method without result
NoArg == "none"    \* arg of a method without argument

(* ----------------------------- helpers -------------------------------- *)
Range(s) == {s[k] : k \in DOMAIN s}
At(s, i) == s[i + 1]
Count(s, e) == Cardinality({k \in DOMAIN s : s[k] = e})
SameElements(s, t) == \A e \in Range(s) \cup Range(t) : Count(s, e) = Count(t, e)

\* Go integer division truncates toward zero.
Quo(a, b) == IF a >= 0 THEN a \div b ELSE -((-a) \div b)

\* The comparator supplied to New: less of heap_test.go, or Item.Less.
Less(hp, a, b) ==
    IF hp.less = "int" THEN a < b ELSE a.priority > b.priority

\* h.setIndex(e, n) when the callback is registered.
callSetIndex(hp, e, n) ==
    IF hp.setIndex THEN [hp EXCEPT !.calls = Append(@, <<e, n>>)] ELSE hp

\* Item.SetIndex: i.index = n.
SetIndex(idx, e, n) == [idx EXCEPT ![e.value] = n]

RECURSIVE ApplyCalls(_, _)
ApplyCalls(idx, cs) ==
    IF cs = <<>> THEN idx
    ELSE ApplyCalls(SetIndex(idx, Head(cs)[1], Head(cs)[2]), Tail(cs))

(* -------------------------- Heap methods ------------------------------ *)
HeapLen(hp) == Len(hp.s)

\* swap that reports the new index of the first slot only.
swapOneCallback(hp, i, j) ==
    LET t == [hp EXCEPT !.s = [k \in DOMAIN hp.s |->
                                  IF k = i + 1 THEN At(hp.s, j)
                                  ELSE IF k = j + 1 THEN At(hp.s, i)
                                  ELSE hp.s[k]]]
    IN callSetIndex(t, At(t.s, i), i)

\* swap that reports to each element the index it has just left.
swapStaleIndex(hp, i, j) ==
    LET t == [hp EXCEPT !.s = [k \in DOMAIN hp.s |->
                                  IF k = i + 1 THEN At(hp.s, j)
                                  ELSE IF k = j + 1 THEN At(hp.s, i)
                                  ELSE hp.s[k]]]
    IN callSetIndex(callSetIndex(t, At(t.s, i), j), At(t.s, j), i)

swap(hp, i, j) ==
    LET t == [hp EXCEPT !.s = [k \in DOMAIN hp.s |->
                                  IF k = i + 1 THEN At(hp.s, j)
                                  ELSE IF k = j + 1 THEN At(hp.s, i)
                                  ELSE hp.s[k]]]
    IN callSetIndex(callSetIndex(t, At(t.s, i), i), At(t.s, j), j)

push(hp, x) ==
    LET t == callSetIndex(hp, x, Len(hp.s))
    IN [t EXCEPT !.s = Append(@, x)]

\* pop that forgets h.s = h.s[:n-1].
popNoShrink(hp) ==
    LET n == Len(hp.s)
        x == At(hp.s, n - 1)
    IN [h |-> callSetIndex(hp, x, -1), x |-> x]

pop(hp) ==
    LET n == Len(hp.s)
        x == At(hp.s, n - 1)
        t == callSetIndex(hp, x, -1)
    IN [h |-> [t EXCEPT !.s = SubSeq(@, 1, n - 1)], x |-> x]

\* up that also swaps with a parent equal to the element.
RECURSIVE upOnEqual(_, _)
upOnEqual(hp, j) ==
    LET i == Quo(j - 1, 2)
    IN IF j = i \/ Less(hp, At(hp.s, i), At(hp.s, j)) THEN hp
       ELSE upOnEqual(swap(hp, i, j), i)

RECURSIVE up(_, _)
up(hp, j) ==
    LET i == Quo(j - 1, 2)
    IN IF j = i \/ ~Less(hp, At(hp.s, j), At(hp.s, i)) THEN hp
       ELSE up(swap(hp, i, j), i)

\* down with the comparison against the parent inverted.
RECURSIVE downLoopInverted(_, _, _)
downLoopInverted(hp, i, n) ==
    LET j1 == 2 * i + 1
        j2 == j1 + 1
    IN IF j1 >= n \/ j1 < 0 THEN [h |-> hp, i |-> i]
       ELSE LET j == IF j2 < n /\ Less(hp, At(hp.s, j2), At(hp.s, j1))
                     THEN j2 ELSE j1
            IN IF ~Less(hp, At(hp.s, i), At(hp.s, j)) THEN [h |-> hp, i |-> i]
               ELSE downLoopInverted(swap(hp, i, j), j, n)

\* down that never looks at the right child.
RECURSIVE downLoopLeftOnly(_, _, _)
downLoopLeftOnly(hp, i, n) ==
    LET j1 == 2 * i + 1
    IN IF j1 >= n \/ j1 < 0 THEN [h |-> hp, i |-> i]
       ELSE IF ~Less(hp, At(hp.s, j1), At(hp.s, i)) THEN [h |-> hp, i |-> i]
            ELSE downLoopLeftOnly(swap(hp, i, j1), j1, n)

\* down that takes the right child also when the children tie.
RECURSIVE downLoopRightOnTies(_, _, _)
downLoopRightOnTies(hp, i, n) ==
    LET j1 == 2 * i + 1
        j2 == j1 + 1
    IN IF j1 >= n \/ j1 < 0 THEN [h |-> hp, i |-> i]
       ELSE LET j == IF j2 < n /\ ~Less(hp, At(hp.s, j1), At(hp.s, j2))
                     THEN j2 ELSE j1
            IN IF ~Less(hp, At(hp.s, j), At(hp.s, i)) THEN [h |-> hp, i |-> i]
               ELSE downLoopRightOnTies(swap(hp, i, j), j, n)

RECURSIVE downLoop(_, _, _)
downLoop(hp, i, n) ==
    LET j1 == 2 * i + 1
        j2 == j1 + 1
    IN IF j1 >= n \/ j1 < 0 THEN [h |-> hp, i |-> i]
       ELSE LET j == IF j2 < n /\ Less(hp, At(hp.s, j2), At(hp.s, j1))
                     THEN j2 ELSE j1
            IN IF ~Less(hp, At(hp.s, j), At(hp.s, i)) THEN [h |-> hp, i |-> i]
               ELSE downLoop(swap(hp, i, j), j, n)

down(hp, i0, n) ==
    LET r == downLoop(hp, i0, n)
    IN [h |-> r.h, moved |-> r.i > i0]

RECURSIVE initLoop(_, _, _)
initLoop(hp, i, n) ==
    IF i >= 0 THEN initLoop(down(hp, i, n).h, i - 1, n) ELSE hp

\* Init whose loop starts one parent too low.
InitOffByOne(hp) ==
    LET n == Len(hp.s)
    IN initLoop(hp, Quo(n, 2) - 2, n)

Init(hp) ==
    LET n == Len(hp.s)
    IN initLoop(hp, Quo(n, 2) - 1, n)

Push(hp, x) ==
    LET t == push(hp, x)
    IN up(t, Len(t.s) - 1)

\* Pop that takes the last element without swapping the root there.
PopNoSwap(hp) == pop(hp)

\* Pop that forgets to sift the new root down.
PopNoDown(hp) ==
    LET n == Len(hp.s) - 1
    IN pop(swap(hp, 0, n))

Pop(hp) ==
    LET n == Len(hp.s) - 1
    IN pop(down(swap(hp, 0, n), 0, n).h)

\* Peek that returns the last element of the backing sequence.
PeekLast(hp) == At(hp.s, Len(hp.s) - 1)

Peek(hp) == At(hp.s, 0)

\* Remove that only sifts the replacement down.
RemoveNoUp(hp, i) ==
    LET n == Len(hp.s) - 1
    IN IF n # i THEN pop(down(swap(hp, i, n), i, n).h) ELSE pop(hp)

Remove(hp, i) ==
    LET n == Len(hp.s) - 1
        d == down(swap(hp, i, n), i, n)
    IN IF n # i
       THEN pop(IF ~d.moved THEN up(d.h, i) ELSE d.h)
       ELSE pop(hp)

\* Fix with the test of down's result inverted.
FixUpIfMoved(hp, i) ==
    LET d == down(hp, i, Len(hp.s))
    IN IF d.moved THEN up(d.h, i) ELSE d.h

\* Fix that only sifts down.
FixNoUp(hp, i) == down(hp, i, Len(hp.s)).h

Fix(hp, i) ==
    LET d == down(hp, i, Len(hp.s))
    IN IF ~d.moved THEN up(d.h, i) ELSE d.h

(* ---------------------- the loops, one iteration ---------------------- *)
\* One iteration of the loop of up, from index j: the heap and index the
\* next iteration starts with, or done when the loop breaks.
upStep(hp, j) ==
    LET i == Quo(j - 1, 2)
    IN IF j = i \/ ~Less(hp, At(hp.s, j), At(hp.s, i))
       THEN [h |-> hp, j |-> j, done |-> TRUE]
       ELSE [h |-> swap(hp, i, j), j |-> i, done |-> FALSE]

\* One iteration of down's loop that swaps and forgets to move to the child.
downStepStuck(hp, i, n) ==
    LET j1 == 2 * i + 1
        j2 == j1 + 1
    IN IF j1 >= n \/ j1 < 0 THEN [h |-> hp, i |-> i, done |-> TRUE]
       ELSE LET j == IF j2 < n /\ Less(hp, At(hp.s, j2), At(hp.s, j1))
                     THEN j2 ELSE j1
            IN IF ~Less(hp, At(hp.s, j), At(hp.s, i))
               THEN [h |-> hp, i |-> i, done |-> TRUE]
               ELSE [h |-> swap(hp, i, j), i |-> i, done |-> FALSE]

\* One iteration of the loop of down, from index i with bound n.
downStep(hp, i, n) ==
    LET j1 == 2 * i + 1
        j2 == j1 + 1
    IN IF j1 >= n \/ j1 < 0 THEN [h |-> hp, i |-> i, done |-> TRUE]
       ELSE LET j == IF j2 < n /\ Less(hp, At(hp.s, j2), At(hp.s, j1))
                     THEN j2 ELSE j1
            IN IF ~Less(hp, At(hp.s, j), At(hp.s, i))
               THEN [h |-> hp, i |-> i, done |-> TRUE]
               ELSE [h |-> swap(hp, i, j), i |-> j, done |-> FALSE]

\* The index Init's loop starts from.
initFirst(hp) == Quo(Len(hp.s), 2) - 1

(* ----------------- the methods with Go's bounds checks ----------------- *)
\* h.s[i] is inside the slice; otherwise the index expression panics.
IndexOK(hp, i) == 0 <= i /\ i < Len(hp.s)

Returned(hp, x) == [h |-> hp, x |-> x, panic |-> FALSE]
Panicked(hp) == [h |-> hp, x |-> NoValue, panic |-> TRUE]

\* swap: the right-hand side h.s[j], h.s[i] is read before anything is
\* assigned, so an index out of range panics with the heap untouched.
swapChecked(hp, i, j) ==
    IF ~IndexOK(hp, j) \/ ~IndexOK(hp, i) THEN Panicked(hp)
    ELSE Returned(swap(hp, i, j), NoValue)

\* pop: h.s[n-1] is read before the callback is invoked.
popChecked(hp) ==
    IF ~IndexOK(hp, Len(hp.s) - 1) THEN Panicked(hp)
    ELSE Returned(pop(hp).h, pop(hp).x)

\* up: j == i is tested before h.s[j] and h.s[i] are read.
RECURSIVE upChecked(_, _)
upChecked(hp, j) ==
    LET i == Quo(j - 1, 2)
    IN IF j = i THEN Returned(hp, NoValue)
       ELSE IF ~IndexOK(hp, j) \/ ~IndexOK(hp, i) THEN Panicked(hp)
       ELSE IF ~Less(hp, At(hp.s, j), At(hp.s, i)) THEN Returned(hp, NoValue)
       ELSE upChecked(swap(hp, i, j), i)

\* down reads h.s[j1], h.s[j2] and h.s[i] only after 0 <= j1 < n.
RECURSIVE downLoopChecked(_, _, _)
downLoopChecked(hp, i, n) ==
    LET j1 == 2 * i + 1
        j2 == j1 + 1
    IN IF j1 >= n \/ j1 < 0 THEN [h |-> hp, i |-> i, panic |-> FALSE]
       ELSE IF ~IndexOK(hp, j1) \/ (j2 < n /\ ~IndexOK(hp, j2)) \/ ~IndexOK(hp, i)
            THEN [h |-> hp, i |-> i, panic |-> TRUE]
       ELSE LET j == IF j2 < n /\ Less(hp, At(hp.s, j2), At(hp.s, j1))
                     THEN j2 ELSE j1
            IN IF ~Less(hp, At(hp.s, j), At(hp.s, i))
               THEN [h |-> hp, i |-> i, panic |-> FALSE]
               ELSE downLoopChecked(swap(hp, i, j), j, n)

downChecked(hp, i0, n) ==
    LET r == downLoopChecked(hp, i0, n)
    IN [h |-> r.h, moved |-> r.i > i0, panic |-> r.panic]

FixChecked(hp, i) ==
    LET d == downChecked(hp, i, Len(hp.s))
    IN IF d.panic THEN Panicked(d.h)
       ELSE IF ~d.moved THEN upChecked(d.h, i)
       ELSE Returned(d.h, NoValue)

\* Remove that takes every index outside the heap for the last one.
RemoveClamped(hp, i) ==
    IF IndexOK(hp, i) THEN Returned(Remove(hp, i).h, Remove(hp, i).x)
    ELSE popChecked(hp)

RemoveChecked(hp, i) ==
    LET n == Len(hp.s) - 1
        sw == swapChecked(hp, i, n)
        d == downChecked(sw.h, i, n)
        u == upChecked(d.h, i)
    IN IF n # i
       THEN IF sw.panic THEN Panicked(sw.h)
            ELSE IF d.panic THEN Panicked(d.h)
            ELSE IF ~d.moved
                 THEN IF u.panic THEN Panicked(u.h) ELSE popChecked(u.h)
            ELSE popChecked(d.h)
       ELSE popChecked(hp)

\* Pop that returns the zero value from an empty heap.
PopLenient(hp) ==
    IF Len(hp.s) = 0 THEN Returned(hp, NoValue)
    ELSE Returned(Pop(hp).h, Pop(hp).x)

PopChecked(hp) ==
    LET n == Len(hp.s) - 1
        sw == swapChecked(hp, 0, n)
        d == downChecked(sw.h, 0, n)
    IN IF sw.panic THEN Panicked(sw.h)
       ELSE IF d.panic THEN Panicked(d.h)
       ELSE popChecked(d.h)

PeekChecked(hp) ==
    IF ~IndexOK(hp, 0) THEN Panicked(hp)
    ELSE Returned(hp, Peek(hp))

(* ----------------------------- package list --------------------------- *)
\* Pointers are integers: Nil, the elements 1..MaxElems in the order they are
\* allocated, and for the root element embedded in list l the number -l.
\* Element.Value plays no part in the linking and is left out.
Nil == 0

Lists == {1, 2}

Elements == 1..MaxElems

root(l) == 0 - l

Nodes == {root(l) : l \in Lists} \cup Elements

\* Zero values: var l List[E], and no element allocated yet.
ZeroMemory ==
    [next |-> [x \in Nodes |-> Nil],
     prev |-> [x \in Nodes |-> Nil],
     list |-> [x \in Nodes |-> Nil],
     len |-> [l \in Lists |-> 0],
     alloc |-> 0,
     panic |-> FALSE]

\* A nil pointer dereference: the assignments made so far stay.
Fault(m) == [m EXCEPT !.panic = TRUE]

\* List.Init.
ListInit(m, l) ==
    [m EXCEPT !.next[root(l)] = root(l),
              !.prev[root(l)] = root(l),
              !.len[l] = 0]

\* List.Clear.
ListClear(m, l) == ListInit(m, l)

ListLen(m, l) == m.len[l]

Front(m, l) == IF m.len[l] = 0 THEN Nil ELSE m.next[root(l)]

Back(m, l) == IF m.len[l] = 0 THEN Nil ELSE m.prev[root(l)]

\* Element.Next.
ElementNext(m, e) ==
    LET p == m.next[e]
    IN IF m.list[e] # Nil /\ p # root(m.list[e]) THEN p ELSE Nil

\* Element.Prev.
ElementPrev(m, e) ==
    LET p == m.prev[e]
    IN IF m.list[e] # Nil /\ p # root(m.list[e]) THEN p ELSE Nil

lazyInit(m, l) == IF m.next[root(l)] = Nil THEN ListInit(m, l) ELSE m

insert(m, l, e, at) ==
    IF at = Nil THEN Fault(m)
    ELSE LET m1 == [m EXCEPT !.prev[e] = at, !.next[e] = m.next[at]]
         IN IF m1.next[at] = Nil THEN Fault(m1)
            ELSE LET m2 == [m1 EXCEPT !.prev[m1.next[at]] = e]
                     m3 == [m2 EXCEPT !.next[at] = e]
                 IN [m3 EXCEPT !.list[e] = l, !.len[l] = @ + 1]

\* insert(&Element[E]{Value: v}, at): the next element is allocated.
insertValue(m, l, at) ==
    insert([m EXCEPT !.alloc = @ + 1], l, m.alloc + 1, at)

remove(m, l, e) ==
    IF m.prev[e] = Nil THEN Fault(m)
    ELSE LET m1 == [m EXCEPT !.next[m.prev[e]] = m.next[e]]
         IN IF m1.next[e] = Nil THEN Fault(m1)
            ELSE LET m2 == [m1 EXCEPT !.prev[m1.next[e]] = m1.prev[e]]
                 IN [m2 EXCEPT !.next[e] = Nil,
                               !.prev[e] = Nil,
                               !.list[e] = Nil,
                               !.len[l] = @ - 1]

move(m, l, e, at) ==
    IF e = at THEN m
    ELSE IF m.prev[e] = Nil THEN Fault(m)
    ELSE LET m1 == [m EXCEPT !.next[m.prev[e]] = m.next[e]]
         IN IF m1.next[e] = Nil THEN Fault(m1)
            ELSE LET m2 == [m1 EXCEPT !.prev[m1.next[e]] = m1.prev[e]]
                     m3 == [m2 EXCEPT !.prev[e] = at]
                 IN IF at = Nil THEN Fault(m3)
                    ELSE LET m4 == [m3 EXCEPT !.next[e] = m3.next[at]]
                         IN IF m4.next[at] = Nil THEN Fault(m4)
                            ELSE LET m5 == [m4 EXCEPT !.prev[m4.next[at]] = e]
                                 IN [m5 EXCEPT !.next[at] = e]

\* List.Remove; the returned e.Value is left out.
ListRemove(m, l, e) == IF l = m.list[e] THEN remove(m, l, e) ELSE m

PushFront(m, l) == insertValue(lazyInit(m, l), l, root(l))

PushBack(m, l) ==
    LET m1 == lazyInit(m, l)
    IN insertValue(m1, l, m1.prev[root(l)])

InsertBefore(m, l, mark) ==
    IF l # m.list[mark] THEN m ELSE insertValue(m, l, m.prev[mark])

InsertAfter(m, l, mark) ==
    IF l # m.list[mark] THEN m ELSE insertValue(m, l, mark)

MoveToFront(m, l, e) ==
    IF l # m.list[e] \/ m.next[root(l)] = e THEN m
    ELSE move(m, l, e, root(l))

MoveToBack(m, l, e) ==
    IF l # m.list[e] \/ m.prev[root(l)] = e THEN m
    ELSE move(m, l, e, m.prev[root(l)])

MoveBefore(m, l, e, mark) ==
    IF l # m.list[e] \/ l # m.list[mark] \/ e = mark THEN m
    ELSE move(m, l, e, m.prev[mark])

MoveAfter(m, l, e, mark) ==
    IF l # m.list[e] \/ l # m.list[mark] \/ e = mark THEN m
    ELSE move(m, l, e, mark)

\* A call that needs more elements than MaxElems is not followed: alloc is
\* left past the bound to tell it from the calls that are.
Exhausted(m) == [m EXCEPT !.alloc = MaxElems + 1]

Fits(m) == m.alloc <= MaxElems

\* The loop of PushBackList, n iterations to go, e the element to copy:
\* e.Value is read (a nil dereference when the iteration has run out of
\* elements before n has run out) and then inserted at the back.
\* The shortest call sequence that runs out of elements takes four of them:
\* e := l.PushFront(v); l.Init(); l.InsertAfter(v, e) twice; PushBackList(l).
RECURSIVE pushBackListLoop(_, _, _, _)
pushBackListLoop(m, l, n, e) ==
    IF n <= 0 THEN m
    ELSE IF e = Nil THEN Fault(m)
    ELSE IF m.alloc >= MaxElems THEN Exhausted(m)
    ELSE LET m1 == insertValue(m, l, m.prev[root(l)])
         IN IF m1.panic THEN m1
            ELSE pushBackListLoop(m1, l, n - 1, ElementNext(m1, e))

PushBackList(m, l, other) ==
    LET m0 == lazyInit(m, l)
    IN pushBackListLoop(m0, l, ListLen(m0, other), Front(m0, other))

\* The loop of PushBackSlice with k values of the slice to go.
RECURSIVE pushBackSliceLoop(_, _, _)
pushBackSliceLoop(m, l, k) ==
    IF k <= 0 THEN m
    ELSE IF m.alloc >= MaxElems THEN Exhausted(m)
    ELSE LET m1 == insertValue(m, l, m.prev[root(l)])
         IN IF m1.panic THEN m1 ELSE pushBackSliceLoop(m1, l, k - 1)

\* PushBackSlice(vs) with len(vs) = k.
PushBackSlice(m, l, k) == pushBackSliceLoop(lazyInit(m, l), l, k)

\* The loop of PushFrontList: from other.Back() with e.Prev(), each copy
\* inserted after the root.
RECURSIVE pushFrontListLoop(_, _, _, _)
pushFrontListLoop(m, l, n, e) ==
    IF n <= 0 THEN m
    ELSE IF e = Nil THEN Fault(m)
    ELSE IF m.alloc >= MaxElems THEN Exhausted(m)
    ELSE LET m1 == insertValue(m, l, root(l))
         IN IF m1.panic THEN m1
            ELSE pushFrontListLoop(m1, l, n - 1, ElementPrev(m1, e))

PushFrontList(m, l, other) ==
    LET m0 == lazyInit(m, l)
    IN pushFrontListLoop(m0, l, ListLen(m0, other), Back(m0, other))

\* The loop of PushFrontSlice with k values of the slice to go, last first.
RECURSIVE pushFrontSliceLoop(_, _, _)
pushFrontSliceLoop(m, l, k) ==
    IF k <= 0 THEN m
    ELSE IF m.alloc >= MaxElems THEN Exhausted(m)
    ELSE LET m1 == insertValue(m, l, root(l))
         IN IF m1.panic THEN m1 ELSE pushFrontSliceLoop(m1, l, k - 1)

\* PushFrontSlice(vs) with len(vs) = k.
PushFrontSlice(m, l, k) == pushFrontSliceLoop(lazyInit(m, l), l, k)

\* for e := l.Front(); e != nil; e = e.Next(): the elements visited, cut
\* off after fuel of them.
RECURSIVE Walk(_, _, _)
Walk(m, e, fuel) ==
    IF e = Nil \/ fuel = 0 THEN <<>>
    ELSE <<e>> \o Walk(m, ElementNext(m, e), fuel - 1)

\* The element order of l as a caller sees it.
Order(m, l) == Walk(m, Front(m, l), MaxElems + 1)

\* myHeap.verify of heap_test.go, as a predicate: no error is reported.
RECURSIVE verify(_, _)
verify(hp, i) ==
    LET n == HeapLen(hp)
        j1 == 2 * i + 1
        j2 == 2 * i + 2
    IN /\ j1 < n => (~Less(hp, At(hp.s, j1), At(hp.s, i)) /\ verify(hp, j1))
       /\ j2 < n => (~Less(hp, At(hp.s, j2), At(hp.s, i)) /\ verify(hp, j2))

\* The invariant stated in the doc comment of type Heap.
HeapInvariant(hp) ==
    \A i \in 0..(HeapLen(hp) - 1) :
        \A j \in {2 * i + 1, 2 * i + 2} :
            j < HeapLen(hp) => ~Less(hp, At(hp.s, j), At(hp.s, i))

\* for h.Len() > 0 { h.Pop() }: the sequence of results.
RECURSIVE Drain(_)
Drain(hp) ==
    IF HeapLen(hp) > 0
    THEN LET r == Pop(hp) IN <<r.x>> \o Drain(r.h)
    ELSE <<>>

(* --------------------------- construction ----------------------------- *)
\* New(less, WithData(s)) for Heap[int].
NewInt(s) == [less |-> "int", s |-> s, setIndex |-> FALSE, calls |-> <<>>]

\* New(Item.Less, WithData(s), WithSetIndex(Item.SetIndex)).
NewPQ(s) == [less |-> "item", s |-> s, setIndex |-> TRUE, calls |-> <<>>]

\* The receiver at the start of a method call: nothing logged yet.
Begin(hp) == [hp EXCEPT !.calls = <<>>]

SeqsUpTo(S, n) == UNION {[1..k -> S] : k \in 0..n}

StartInt ==
    /\ \E s \in SeqsUpTo(Keys, MaxLen) : h = NewInt(s)
    /\ index = [v \in Values |-> 0]
    /\ removed = {}
    /\ established = (h.s = <<>>)
    /\ net = {Len(h.s)}
    /\ op = "New" /\ arg = NoArg /\ ret = NoValue
    /\ pre = h
    /\ panicked = FALSE
    /\ preset = FALSE

StartPQ ==
    /\ h = NewPQ(<<>>)
    /\ index = [v \in Values |-> 0]
    /\ removed = {}
    /\ established = TRUE
    /\ net = {0}
    /\ op = "New" /\ arg = NoArg /\ ret = NoValue
    /\ pre = h
    /\ panicked = FALSE
    /\ preset = FALSE

\* Sequences of items with pairwise different values, as the map literal of
\* Example_priorityQueue yields them.
ItemSeqs ==
    {s \in SeqsUpTo(Items, MaxItems) :
        \A j, k \in DOMAIN s : j # k => s[j].value # s[k].value}

\* The index the caller writes into every supplied item: its place in s.
PresetIndex(s) ==
    [v \in Values |->
        IF \E k \in DOMAIN s : s[k].value = v
        THEN (CHOOSE k \in DOMAIN s : s[k].value = v) - 1
        ELSE 0]

\* Example_priorityQueue: the items are collected with index: i and handed
\* to New with WithData and WithSetIndex; Init follows.
StartPQData ==
    /\ \E s \in ItemSeqs : s # <<>> /\ h = NewPQ(s)
    /\ index = PresetIndex(h.s)
    /\ removed = {}
    /\ established = FALSE
    /\ net = {Len(h.s)}
    /\ op = "New" /\ arg = NoArg /\ ret = NoValue
    /\ pre = h
    /\ panicked = FALSE
    /\ preset = TRUE

(* ------------------------------ actions ------------------------------- *)
\* A panic is not recovered: it ends the program, so no method is called
\* after one.
\* Elements a caller may push: any int, or an item that is not in the heap.
Pushable ==
    IF h.less = "int" THEN Keys
    ELSE {x \in Items : \A k \in DOMAIN h.s : h.s[k].value # x.value}

Effects(hn) ==
    /\ h' = hn
    /\ index' = ApplyCalls(index, hn.calls)
    /\ pre' = Begin(h)
    /\ panicked' = FALSE
    /\ UNCHANGED <<preset, ls, lcall>>

\* A call made against its precondition: it panics or returns.
Outcome(r) ==
    /\ h' = r.h
    /\ index' = ApplyCalls(index, r.h.calls)
    /\ pre' = Begin(h)
    /\ panicked' = r.panic
    /\ ret' = r.x
    /\ UNCHANGED <<preset, ls, lcall>>

\* Indices outside the heap.
OutOfRange(hp) ==
    {i \in (0 - MaxOver)..(HeapLen(hp) + MaxOver - 1) : ~IndexOK(hp, i)}

DoInit ==
    /\ ~panicked
    /\ Effects(Init(Begin(h)))
    /\ established' = TRUE
    /\ op' = "Init" /\ arg' = NoArg /\ ret' = NoValue
    /\ UNCHANGED <<removed, net>>

DoPush ==
    /\ ~panicked
    /\ established
    /\ HeapLen(h) < MaxLen
    /\ \E x \in Pushable :
          /\ Effects(Push(Begin(h), x))
          /\ arg' = x
          /\ removed' = IF h.less = "int" THEN removed ELSE removed \ {x.value}
    /\ net' = {n + 1 : n \in net}
    /\ op' = "Push" /\ ret' = NoValue
    /\ UNCHANGED established

DoPop ==
    /\ ~panicked
    /\ established
    /\ HeapLen(h) > 0
    /\ LET r == Pop(Begin(h))
       IN /\ Effects(r.h)
          /\ ret' = r.x
          /\ removed' = IF h.less = "int" THEN removed ELSE removed \cup {r.x.value}
    /\ net' = {n - 1 : n \in net}
    /\ op' = "Pop" /\ arg' = NoArg
    /\ UNCHANGED established

DoPeek ==
    /\ ~panicked
    /\ established
    /\ HeapLen(h) > 0
    /\ Effects(Begin(h))
    /\ ret' = Peek(h)
    /\ op' = "Peek" /\ arg' = NoArg
    /\ UNCHANGED <<removed, net, established>>

DoRemove ==
    /\ ~panicked
    /\ established
    /\ \E i \in 0..(HeapLen(h) - 1) :
          LET r == Remove(Begin(h), i)
          IN /\ Effects(r.h)
             /\ ret' = r.x
             /\ arg' = i
             /\ removed' = IF h.less = "int" THEN removed
                           ELSE removed \cup {r.x.value}
    /\ net' = {n - 1 : n \in net}
    /\ op' = "Remove"
    /\ UNCHANGED established

\* h.s[i] = v; h.Fix(i)  (TestFix).
DoFix ==
    /\ ~panicked
    /\ established
    /\ h.less = "int"
    /\ \E i \in 0..(HeapLen(h) - 1), v \in Keys :
          /\ Effects(Fix([Begin(h) EXCEPT !.s[i + 1] = v], i))
          /\ arg' = [i |-> i, v |-> v]
    /\ op' = "Fix" /\ ret' = NoValue
    /\ UNCHANGED <<removed, net, established>>

\* PriorityQueue.update(item, value, priority): the item is changed in place
\* wherever it sits, then pq.Fix(item.index).
DoUpdate ==
    /\ ~panicked
    /\ established
    /\ h.less = "item"
    /\ \E k \in 0..(HeapLen(h) - 1), p \in Priorities :
          LET item == At(h.s, k)
          IN /\ Effects(Fix([Begin(h) EXCEPT !.s[k + 1].priority = p],
                            index[item.value]))
             /\ arg' = [i |-> index[item.value], v |-> p]
    /\ op' = "Fix" /\ ret' = NoValue
    /\ UNCHANGED <<removed, net, established>>

\* h.Fix(i) with i outside the heap.
DoFixOutOfRange ==
    /\ ~panicked
    /\ established
    /\ \E i \in OutOfRange(h) :
          /\ Outcome(FixChecked(Begin(h), i))
          /\ arg' = [i |-> i, v |-> NoValue]
    /\ op' = "Fix"
    /\ UNCHANGED <<removed, net, established>>

\* h.Remove(i) with i outside the heap.
DoRemoveOutOfRange ==
    /\ ~panicked
    /\ established
    /\ \E i \in OutOfRange(h) :
          /\ Outcome(RemoveChecked(Begin(h), i))
          /\ arg' = i
    /\ op' = "Remove"
    /\ UNCHANGED <<removed, net, established>>

\* h.Pop() on an empty heap.
DoPopEmpty ==
    /\ ~panicked
    /\ established
    /\ HeapLen(h) = 0
    /\ Outcome(PopChecked(Begin(h)))
    /\ op' = "Pop" /\ arg' = NoArg
    /\ UNCHANGED <<removed, net, established>>

\* h.Peek() on an empty heap.
DoPeekEmpty ==
    /\ ~panicked
    /\ established
    /\ HeapLen(h) = 0
    /\ Outcome(PeekChecked(Begin(h)))
    /\ op' = "Peek" /\ arg' = NoArg
    /\ UNCHANGED <<removed, net, established>>

\* No list is in use: every List and Element is the zero value.
NoCall ==
    [op |-> "none", l |-> Nil, e |-> Nil, mark |-> Nil, other |-> Nil, n |-> 0,
     plain |-> TRUE, pre |-> ZeroMemory]

ZeroLists == ls = ZeroMemory /\ lcall = NoCall

Start == (StartInt \/ StartPQ \/ StartPQData) /\ ZeroLists

\* The lists alone: the heap is left as created.
StartList == StartPQ /\ ZeroLists

Next ==
    \/ DoInit \/ DoPush \/ DoPop \/ DoPeek \/ DoRemove \/ DoFix \/ DoUpdate
    \/ DoFixOutOfRange \/ DoRemoveOutOfRange \/ DoPopEmpty \/ DoPeekEmpty

Spec == Start /\ [][Next]_vars

(* --------------------------- actions on lists -------------------------- *)
\* The elements a caller can hold a pointer to.
Allocated == 1..ls.alloc

\* The method `name` has been called on list l and has left the memory m.
\* lcall.plain: no list or slice has been pushed so far.
ListCall(name, l, e, mark, m) ==
    /\ ls' = m
    /\ lcall' = [op |-> name, l |-> l, e |-> e, mark |-> mark, other |-> Nil,
                 n |-> 0, plain |-> lcall.plain, pre |-> ls]
    /\ UNCHANGED heapvars

\* `name` has been called on l with the list `other` or a slice of n values.
ListCallOn(name, l, other, n, m) ==
    /\ ls' = m
    /\ lcall' = [op |-> name, l |-> l, e |-> Nil, mark |-> Nil, other |-> other,
                 n |-> n, plain |-> FALSE, pre |-> ls]
    /\ UNCHANGED heapvars

\* A nil dereference is a panic, which ends the program: every method is
\* called on a memory that no call has panicked on.
DoListInit ==
    /\ ~ls.panic
    /\ \E l \in Lists : ListCall("Init", l, Nil, Nil, ListInit(ls, l))

DoListClear ==
    /\ ~ls.panic
    /\ \E l \in Lists : ListCall("Clear", l, Nil, Nil, ListClear(ls, l))

DoPushFront ==
    /\ ~ls.panic
    /\ ls.alloc < MaxElems
    /\ \E l \in Lists : ListCall("PushFront", l, Nil, Nil, PushFront(ls, l))

DoPushBack ==
    /\ ~ls.panic
    /\ ls.alloc < MaxElems
    /\ \E l \in Lists : ListCall("PushBack", l, Nil, Nil, PushBack(ls, l))

DoInsertBefore ==
    /\ ~ls.panic
    /\ \E l \in Lists, mark \in Allocated :
           /\ ls.alloc < MaxElems \/ ls.list[mark] # l
           /\ ListCall("InsertBefore", l, Nil, mark, InsertBefore(ls, l, mark))

DoInsertAfter ==
    /\ ~ls.panic
    /\ \E l \in Lists, mark \in Allocated :
           /\ ls.alloc < MaxElems \/ ls.list[mark] # l
           /\ ListCall("InsertAfter", l, Nil, mark, InsertAfter(ls, l, mark))

DoListRemove ==
    /\ ~ls.panic
    /\ \E l \in Lists, e \in Allocated :
           ListCall("Remove", l, e, Nil, ListRemove(ls, l, e))

DoMoveToFront ==
    /\ ~ls.panic
    /\ \E l \in Lists, e \in Allocated :
           ListCall("MoveToFront", l, e, Nil, MoveToFront(ls, l, e))

DoMoveToBack ==
    /\ ~ls.panic
    /\ \E l \in Lists, e \in Allocated :
           ListCall("MoveToBack", l, e, Nil, MoveToBack(ls, l, e))

DoMoveBefore ==
    /\ ~ls.panic
    /\ \E l \in Lists, e \in Allocated, mark \in Allocated :
           ListCall("MoveBefore", l, e, mark, MoveBefore(ls, l, e, mark))

DoMoveAfter ==
    /\ ~ls.panic
    /\ \E l \in Lists, e \in Allocated, mark \in Allocated :
           ListCall("MoveAfter", l, e, mark, MoveAfter(ls, l, e, mark))

DoPushBackList ==
    /\ ~ls.panic
    /\ \E l \in Lists, other \in Lists :
           /\ Fits(PushBackList(ls, l, other))
           /\ ListCallOn("PushBackList", l, other, 0, PushBackList(ls, l, other))

DoPushBackSlice ==
    /\ ~ls.panic
    /\ \E l \in Lists, k \in 0..MaxSlice :
           /\ Fits(PushBackSlice(ls, l, k))
           /\ ListCallOn("PushBackSlice", l, Nil, k, PushBackSlice(ls, l, k))

DoPushFrontList ==
    /\ ~ls.panic
    /\ \E l \in Lists, other \in Lists :
           /\ Fits(PushFrontList(ls, l, other))
           /\ ListCallOn("PushFrontList", l, other, 0, PushFrontList(ls, l, other))

DoPushFrontSlice ==
    /\ ~ls.panic
    /\ \E l \in Lists, k \in 0..MaxSlice :
           /\ Fits(PushFrontSlice(ls, l, k))
           /\ ListCallOn("PushFrontSlice", l, Nil, k, PushFrontSlice(ls, l, k))

NextList ==
    \/ DoListInit \/ DoListClear \/ DoPushFront \/ DoPushBack
    \/ DoPushBackList \/ DoPushBackSlice \/ DoPushFrontList \/ DoPushFrontSlice
    \/ DoInsertBefore \/ DoInsertAfter \/ DoListRemove
    \/ DoMoveToFront \/ DoMoveToBack \/ DoMoveBefore \/ DoMoveAfter

SpecList == StartList /\ [][NextList]_vars

(* ------------------------------- claims ------------------------------- *)
\* s is in non-decreasing order under the comparator of hp.
NonDecreasing(hp, s) ==
    \A k \in 1..(Len(s) - 1) : ~Less(hp, s[k + 1], s[k])

\* s with one occurrence of e taken out has the elements of t.
MinusOne(s, e, t) ==
    /\ Len(t) = Len(s) - 1
    /\ \A x \in Range(s) \cup Range(t) :
          Count(t, x) = Count(s, x) - (IF x = e THEN 1 ELSE 0)

\* C1: once the heap is established (created empty, or Init was called on
\* its initial contents), after every Push, Pop, Remove, Fix and Init no
\* child is less than its parent.
C1_HeapInvariant == established => HeapInvariant(h)

C1_Witness ==
    /\ h.less = "int"
    /\ established
    /\ op = "Fix"
    /\ HeapLen(h) >= 4
    /\ h.s # pre.s
    /\ Less(h, At(h.s, 0), At(h.s, 3))

\* C2: popping a valid heap until it is empty returns every element exactly
\* once, in non-decreasing order; [2,1,5] after Init and Push(3) drains as
\* 1,2,3,5.
C2_PopOrdering ==
    /\ HeapInvariant(h) =>
          LET d == Drain(Begin(h))
          IN /\ Len(d) = HeapLen(h)
             /\ SameElements(d, h.s)
             /\ NonDecreasing(h, d)
    /\ Drain(Push(Init(NewInt(<<2, 1, 5>>)), 3)) = <<1, 2, 3, 5>>

C2_Witness ==
    /\ HeapInvariant(h)
    /\ established
    /\ HeapLen(h) >= 5
    /\ Drain(Begin(h)) # h.s
    /\ Cardinality(Range(h.s)) >= 3

\* C3: Remove(i) on a valid heap returns the element that was at index i,
\* leaves the other elements (as a multiset), and leaves a valid heap.
C3_RemoveCorrect ==
    (op = "Remove" /\ IndexOK(pre, arg) /\ HeapInvariant(pre)) =>
        /\ ret = At(pre.s, arg)
        /\ MinusOne(pre.s, ret, h.s)
        /\ HeapInvariant(h)

\* The replacement (the former last element) rose above index i.
C3_Witness ==
    /\ op = "Remove"
    /\ IndexOK(pre, arg)
    /\ HeapInvariant(pre)
    /\ arg >= 3
    /\ arg < HeapLen(h)
    /\ At(h.s, Quo(arg - 1, 2)) = At(pre.s, HeapLen(pre) - 1)
    /\ At(h.s, arg) = At(pre.s, Quo(arg - 1, 2))
    /\ At(h.s, arg) # At(h.s, Quo(arg - 1, 2))

\* Where each item sits in s; -1 for an item that is not in s.
PosIn(s) ==
    [v \in Values |->
        IF \E k \in DOMAIN s : s[k].value = v
        THEN (CHOOSE k \in DOMAIN s : s[k].value = v) - 1
        ELSE -1]

\* The positions after the callback invocations cs, starting from pos.
RECURSIVE Replay(_, _)
Replay(pos, cs) ==
    IF cs = <<>> THEN pos
    ELSE Replay([pos EXCEPT ![Head(cs)[1].value] = Head(cs)[2]], Tail(cs))

\* No invocation of cs reports the index the element already had.
RECURSIVE OnlyMoves(_, _)
OnlyMoves(pos, cs) ==
    \/ cs = <<>>
    \/ /\ Head(cs)[2] # pos[Head(cs)[1].value]
       /\ OnlyMoves([pos EXCEPT ![Head(cs)[1].value] = Head(cs)[2]], Tail(cs))

\* C4: with a registered callback and a heap that starts empty, the index
\* last reported for every element in the heap is its position in the
\* backing store, and for every removed element it is -1.
C4_IndexFidelity ==
    h.setIndex =>
        /\ \A k \in 0..(HeapLen(h) - 1) : index[At(h.s, k).value] = k
        /\ \A v \in removed : index[v] = -1

C4_Witness ==
    /\ h.setIndex
    /\ op = "Fix"
    /\ HeapLen(h) >= 2
    /\ removed # {}
    /\ Len(h.calls) >= 2
    /\ At(h.s, 0).value # At(pre.s, 0).value

\* C5: the callback is invoked for an element only when it moves to an index
\* different from the one it held (or -1 on removal), once per new position.
C5_CallbackMinimal ==
    h.setIndex =>
        /\ OnlyMoves(PosIn(pre.s), h.calls)
        /\ Replay(PosIn(pre.s), h.calls) = PosIn(h.s)

\* The value at index i of hp overwritten in place by key v.
Overwrite(hp, i, v) ==
    IF hp.less = "int" THEN [hp EXCEPT !.s[i + 1] = v]
    ELSE [hp EXCEPT !.s[i + 1].priority = v]

\* Remove(i) followed by a Push of the element with its new key.
RemoveThenPush(hp, i, v) ==
    Push(Remove(hp, i).h, At(Overwrite(hp, i, v).s, i))

\* s and t are equal up to the order of elements that tie under the
\* comparator: at every position neither element is less than the other.
SameUpToTies(hp, s, t) ==
    /\ Len(s) = Len(t)
    /\ \A k \in 1..Len(s) : ~Less(hp, s[k], t[k]) /\ ~Less(hp, t[k], s[k])

\* C6 as stated: on a valid heap, overwriting the value at i with v and
\* calling Fix(i) gives the same multiset, a valid heap, and the same
\* sequence of popped values as Remove(i) followed by Push(v).
C6_FixSameSequence ==
    (op = "Fix" /\ IndexOK(pre, arg.i) /\ HeapInvariant(pre)) =>
        LET b == RemoveThenPush(pre, arg.i, arg.v)
        IN /\ SameElements(h.s, b.s)
           /\ HeapInvariant(h)
           /\ HeapInvariant(b)
           /\ Drain(Begin(h)) = Drain(Begin(b))

\* C6 amended: the two routes give the same multiset, valid heaps, and
\* popped sequences that agree up to the order of elements that tie under
\* the comparator (so they are identical for Heap[int]).
C6_FixEquivalence ==
    (op = "Fix" /\ IndexOK(pre, arg.i) /\ HeapInvariant(pre)) =>
        LET b == RemoveThenPush(pre, arg.i, arg.v)
        IN /\ SameElements(h.s, b.s)
           /\ HeapInvariant(h)
           /\ HeapInvariant(b)
           /\ SameUpToTies(h, Drain(Begin(h)), Drain(Begin(b)))
           /\ h.less = "int" => Drain(Begin(h)) = Drain(Begin(b))

\* The new value had to rise, and the two routes leave different backing
\* sequences.
C6_Witness ==
    /\ h.less = "int"
    /\ op = "Fix"
    /\ IndexOK(pre, arg.i)
    /\ HeapInvariant(pre)
    /\ arg.i >= 3
    /\ arg.v < At(pre.s, arg.i)
    /\ At(h.s, 0) = arg.v
    /\ At(pre.s, 0) # arg.v
    /\ h.s # RemoveThenPush(pre, arg.i, arg.v).s

\* C7: Init on arbitrary backing contents leaves a valid heap holding a
\* permutation of the initial sequence.
C7_InitEstablishes ==
    op = "Init" =>
        /\ HeapInvariant(h)
        /\ verify(h, 0)
        /\ Len(h.s) = Len(pre.s)
        /\ SameElements(h.s, pre.s)

\* Reverse-sorted contents with a duplicate.
C7_Witness ==
    /\ h.less = "int"
    /\ op = "Init"
    /\ Len(pre.s) >= 5
    /\ \A k \in 1..(Len(pre.s) - 1) : pre.s[k] >= pre.s[k + 1]
    /\ pre.s[1] > pre.s[Len(pre.s)]
    /\ ~HeapInvariant(pre)

\* C8: Init on a valid heap keeps the multiset of elements and the heap
\* invariant, and a second Init gives the same result as the first.
C8_InitIdempotent ==
    op = "Init" =>
        /\ HeapInvariant(pre) => (SameElements(h.s, pre.s) /\ HeapInvariant(h))
        /\ Init(Begin(h)).s = h.s

C8_Witness ==
    /\ op = "Init"
    /\ HeapInvariant(pre)
    /\ HeapLen(pre) >= 4
    /\ Less(pre, At(pre.s, 0), At(pre.s, 1))

\* C9: Push adds one to Len(), Pop and Remove take one off, Fix, Init and
\* Peek leave it alone, and after k pushes and m pops on an empty heap
\* Len() = k - m (the count kept in net, which also takes in the elements
\* supplied at creation and those removed).
C9_SizeAccounting ==
    /\ op = "Push" => HeapLen(h) = HeapLen(pre) + 1
    /\ (op \in {"Pop", "Remove"} /\ ~panicked) => HeapLen(h) = HeapLen(pre) - 1
    /\ op \in {"Fix", "Init", "Peek"} => HeapLen(h) = HeapLen(pre)
    /\ \A n \in net : HeapLen(h) = n

C9_Witness ==
    /\ h.less = "int"
    /\ op = "Pop"
    /\ net = {3}
    /\ HeapLen(pre) = 4

\* C10: on a non-empty valid heap Pop and Remove(0) return the same element
\* and leave the same backing sequence.
C10_PopIsRemove0 ==
    (op = "Pop" /\ HeapLen(pre) > 0 /\ HeapInvariant(pre)) =>
        LET r == Remove(pre, 0)
        IN /\ ret = r.x
           /\ h.s = r.h.s

C10_Witness ==
    /\ op = "Pop"
    /\ ~panicked
    /\ HeapInvariant(pre)
    /\ HeapLen(pre) >= 5
    /\ h.s # SubSeq(pre.s, 2, Len(pre.s))
    /\ Cardinality(Range(pre.s)) >= 2

\* A heap of exactly one element.
C10_WitnessOne ==
    /\ op = "Pop"
    /\ HeapLen(pre) = 1
    /\ h.s = <<>>

\* C11: Peek on a non-empty valid heap returns the element at index 0, no
\* element of the heap is less than it, and the call leaves the backing
\* sequence and Len unchanged and invokes no callback.
C11_PeekMinimum ==
    (op = "Peek" /\ HeapLen(pre) > 0 /\ HeapInvariant(pre)) =>
        /\ ~panicked
        /\ ret = At(pre.s, 0)
        /\ \A k \in 0..(HeapLen(pre) - 1) : ~Less(pre, At(pre.s, k), ret)
        /\ h.s = pre.s
        /\ HeapLen(h) = HeapLen(pre)
        /\ h.calls = <<>>

C11_Witness ==
    /\ op = "Peek"
    /\ h.setIndex
    /\ HeapInvariant(pre)
    /\ HeapLen(pre) >= 3
    /\ Less(pre, At(pre.s, 0), At(pre.s, HeapLen(pre) - 1))

\* C12: Fix(i) with i outside the heap (i < 0 or i >= Len(), every i on an
\* empty heap included) ends in a panic and leaves the heap unchanged.
C12_FixOutOfRangeFails ==
    (op = "Fix" /\ ~IndexOK(pre, arg.i)) =>
        /\ panicked
        /\ h.s = pre.s

\* What the code does guarantee for such a call: the heap is unchanged and no
\* callback is invoked, and the call panics except for i = -1 and for
\* i = 0 on an empty heap, where it returns.
C12_FixOutOfRangeUnchanged ==
    (op = "Fix" /\ ~IndexOK(pre, arg.i)) =>
        /\ h.s = pre.s
        /\ h.calls = <<>>
        /\ panicked <=> ~(arg.i = 0 - 1 \/ (arg.i = 0 /\ HeapLen(pre) = 0))

\* Fix(-1) on a non-empty heap has returned.
C12_ReturnedWitness ==
    /\ op = "Fix"
    /\ arg.i < 0
    /\ HeapLen(pre) >= 2
    /\ ~panicked

\* C13: Remove(i) with i outside the heap (i < 0 or i >= Len(), every i on an
\* empty heap included) ends in a panic, with the backing sequence and Len
\* unchanged and no callback invoked.
C13_RemoveOutOfRangeFails ==
    (op = "Remove" /\ ~IndexOK(pre, arg)) =>
        /\ panicked
        /\ h.s = pre.s
        /\ HeapLen(h) = HeapLen(pre)
        /\ h.calls = <<>>

C13_Witness ==
    /\ op = "Remove"
    /\ h.setIndex
    /\ HeapLen(pre) >= 2
    /\ arg >= HeapLen(pre)
    /\ panicked

\* The same below the heap and on an empty heap.
C13_WitnessNegative ==
    op = "Remove" /\ arg < 0 /\ HeapLen(pre) >= 1 /\ panicked

C13_WitnessEmpty ==
    op = "Remove" /\ arg = 0 - 1 /\ HeapLen(pre) = 0 /\ panicked

\* C14: Peek and Pop on an empty heap end in a panic instead of returning an
\* element; the heap stays empty and no callback is invoked.
C14_EmptyAccessFails ==
    (op \in {"Peek", "Pop"} /\ HeapLen(pre) = 0) =>
        /\ panicked
        /\ ret = NoValue
        /\ h.s = <<>>
        /\ h.calls = <<>>

C14_Witness ==
    /\ op = "Pop"
    /\ h.setIndex
    /\ HeapLen(pre) = 0
    /\ panicked
    /\ removed # {}

C14_WitnessPeek ==
    op = "Peek" /\ HeapLen(pre) = 0 /\ panicked

\* The heap the repair step of the last call started from: for Fix the heap
\* with the value at i overwritten, for Remove the heap after swap(i, n).
RepairBase ==
    IF op = "Fix" THEN Overwrite(pre, arg.i, arg.v)
    ELSE swap(pre, arg, HeapLen(pre) - 1)

RepairIndex == IF op = "Fix" THEN arg.i ELSE arg

RepairLen == IF op = "Fix" THEN HeapLen(pre) ELSE HeapLen(pre) - 1

\* The last call was a Fix or a Remove of an element other than the last,
\* on a valid heap, so that only the value at RepairIndex is out of place.
Repaired ==
    /\ HeapInvariant(pre)
    /\ \/ op = "Fix" /\ IndexOK(pre, arg.i)
       \/ op = "Remove" /\ IndexOK(pre, arg) /\ arg # HeapLen(pre) - 1

\* The indices reported to the callback for element e, in order.
RECURSIVE ReportedFor(_, _)
ReportedFor(cs, e) ==
    IF cs = <<>> THEN <<>>
    ELSE IF Head(cs)[1] = e THEN <<Head(cs)[2]>> \o ReportedFor(Tail(cs), e)
    ELSE ReportedFor(Tail(cs), e)

\* C16: in Fix(i), and in Remove(i) with i not the last index, on a heap
\* where only the value at i is out of place, sift-up from i takes effect if
\* and only if sift-down from i did not move the element: the result is
\* that of the one direction applied, the element is never moved both down
\* and up, and the result is a valid heap.
C16_RepairOneDirection ==
    Repaired =>
        LET m == RepairBase
            i == RepairIndex
            n == RepairLen
            d == down(m, i, n)
            u == up(m, i)
            res == IF op = "Fix" THEN h.s ELSE Append(h.s, ret)
        IN /\ d.moved => res = d.h.s /\ up(d.h, i).s = d.h.s /\ u.s = m.s
           /\ ~d.moved => res = u.s /\ d.h.s = m.s
           /\ HeapInvariant(h)
           /\ (h.setIndex /\ op = "Fix") =>
                 LET r == ReportedFor(h.calls, At(m.s, i))
                 IN \/ \A k \in 1..Len(r) : r[k] > i
                    \/ \A k \in 1..Len(r) : r[k] < i

\* A Fix where sift-down did not move the element and sift-up did.
C16_Witness ==
    /\ Repaired
    /\ op = "Fix"
    /\ HeapLen(pre) >= 4
    /\ arg.i >= 3
    /\ ~down(RepairBase, RepairIndex, RepairLen).moved
    /\ At(h.s, 0) = At(RepairBase.s, arg.i)
    /\ h.s # RepairBase.s

\* A Fix where sift-down moved the element.
C16_WitnessDown ==
    /\ Repaired
    /\ op = "Fix"
    /\ h.setIndex
    /\ down(RepairBase, RepairIndex, RepairLen).moved

\* A Remove whose replacement rose.
C16_WitnessRemove ==
    /\ Repaired
    /\ op = "Remove"
    /\ ~down(RepairBase, RepairIndex, RepairLen).moved
    /\ up(RepairBase, RepairIndex).s # RepairBase.s

\* The heap a sift-down is tried on: the heap a Fix started from, with the
\* value at i overwritten, and otherwise the heap as it stands.
SiftBase ==
    IF op = "Fix" /\ IndexOK(pre, arg.i) THEN Overwrite(pre, arg.i, arg.v)
    ELSE Begin(h)

\* C17: sift-down from a node with at least one child inside the heap takes
\* as candidate the right child only if it exists and is strictly less than
\* the left child, and the left child otherwise (so on ties); the node is
\* swapped with the candidate only if the candidate is strictly less than
\* the node; the node is never swapped with a child whose sibling is
\* strictly less than it.
C17_SiftDownTieBreak ==
    LET b == SiftBase
        s == b.s
        n == Len(s)
    IN \A i \in 0..(n - 1) :
         LET j1 == 2 * i + 1
             j2 == j1 + 1
             d == down(b, i, n)
             cand == IF j2 < n /\ Less(b, At(s, j2), At(s, j1)) THEN j2 ELSE j1
             other == IF cand = j1 THEN j2 ELSE j1
         IN IF j1 >= n THEN ~d.moved /\ d.h.s = s
            ELSE /\ d.moved <=> Less(b, At(s, cand), At(s, i))
                 /\ ~d.moved => d.h.s = s
                 /\ d.moved =>
                       /\ At(d.h.s, i) = At(s, cand)
                       /\ other < n => ~Less(b, At(s, other), At(s, cand))

\* The children of the root tie, the root is greater than both, and the
\* left child has been promoted.
C17_Witness ==
    /\ op = "Fix"
    /\ h.setIndex
    /\ IndexOK(pre, arg.i)
    /\ HeapLen(pre) >= 3
    /\ LET s == SiftBase.s
       IN /\ ~Less(h, s[2], s[3]) /\ ~Less(h, s[3], s[2])
          /\ Less(h, s[2], s[1])
          /\ At(h.s, 0) = s[2]

\* The right child is strictly less than the left and has been promoted.
C17_WitnessRight ==
    /\ op = "Fix"
    /\ IndexOK(pre, arg.i)
    /\ HeapLen(pre) >= 3
    /\ LET s == SiftBase.s
       IN /\ Less(h, s[3], s[2])
          /\ Less(h, s[3], s[1])
          /\ At(h.s, 0) = s[3]

\* Push(x) on a valid heap of n elements leaves x at index n: the heap was
\* empty, or x is not strictly less than the element at index (n-1)/2.
PushStays ==
    \/ HeapLen(pre) = 0
    \/ ~Less(pre, arg, At(pre.s, Quo(HeapLen(pre) - 1, 2)))

\* C18: Push(x) on a valid heap of n elements, with x not strictly less
\* than the element at index (n-1)/2, or with n = 0, leaves every existing
\* element at its index and x at index n, and the only callback invoked is
\* (x, n); a strictly smaller x does not stay at n.
C18_SiftUpStopsOnEquality ==
    (op = "Push" /\ HeapInvariant(pre)) =>
        /\ PushStays =>
              /\ h.s = Append(pre.s, arg)
              /\ h.setIndex => h.calls = <<<<arg, HeapLen(pre)>>>>
        /\ ~PushStays => At(h.s, HeapLen(pre)) # arg

\* x ties with its parent and has stayed below it.
C18_Witness ==
    /\ op = "Push"
    /\ h.setIndex
    /\ HeapLen(pre) >= 1
    /\ LET parent == At(pre.s, Quo(HeapLen(pre) - 1, 2))
       IN ~Less(pre, arg, parent) /\ ~Less(pre, parent, arg)
    /\ At(h.s, HeapLen(pre)) = arg

\* C19: the loops of up and down make progress, so every call of Init,
\* Push, Pop, Remove and Fix with its precondition met terminates: an
\* iteration of up that does not break continues from a strictly smaller
\* index that is at least 0, an iteration of down that does not break
\* continues from a strictly greater index that is below the bound n (the
\* length in Fix and Init, the length less one in Pop and Remove), and
\* Init's loop counts down from an index below n.  up and down are these
\* iterations repeated until one breaks.
C19_LoopsProgress ==
    LET b == SiftBase
        n == Len(b.s)
    IN /\ \A j \in 0..(n - 1) :
             LET st == upStep(b, j)
             IN /\ ~st.done => 0 <= st.j /\ st.j < j
                /\ st.done => st.h = b /\ st.j = j
                /\ up(b, j) = IF st.done THEN b ELSE up(st.h, st.j)
       /\ \A m \in {n, n - 1} :
             \A i \in 0..(n - 1) :
               LET st == downStep(b, i, m)
               IN /\ ~st.done => i < st.i /\ st.i < m
                  /\ st.done => st.h = b /\ st.i = i
                  /\ downLoop(b, i, m) =
                        IF st.done THEN [h |-> b, i |-> i]
                        ELSE downLoop(st.h, st.i, m)
       /\ initFirst(b) < n
       /\ Init(b) = initLoop(b, initFirst(b), n)
       /\ op \in {"Init", "Push"} => ~panicked
       /\ (op = "Pop" /\ HeapLen(pre) > 0) => ~panicked
       /\ (op = "Remove" /\ IndexOK(pre, arg)) => ~panicked
       /\ (op = "Fix" /\ IndexOK(pre, arg.i)) => ~panicked

\* A Pop whose sift-down ran two iterations that swapped.
C19_Witness ==
    /\ op = "Pop"
    /\ HeapLen(pre) >= 5
    /\ LET n == HeapLen(pre) - 1
           b == swap(pre, 0, n)
           first == downStep(b, 0, n)
       IN /\ ~first.done
          /\ ~downStep(first.h, first.i, n).done
          /\ downLoop(b, 0, n).i >= 3

\* A Fix whose sift-up ran two iterations that swapped.
C19_WitnessUp ==
    /\ op = "Fix"
    /\ IndexOK(pre, arg.i)
    /\ arg.i >= 3
    /\ LET first == upStep(SiftBase, arg.i)
       IN ~first.done /\ ~upStep(first.h, first.j).done

\* C20: for a queue built from supplied items whose recorded index the
\* caller set to their place in the supplied sequence, with the callback
\* registered: after Init, and after every later Push, Pop, Remove and Fix,
\* the recorded index of every item in the heap is its position; and Init
\* invokes the callback only for items it moves, each time with an index
\* other than the one the item held.
C20_IndexAcrossInit ==
    preset =>
        /\ \A k \in 0..(HeapLen(h) - 1) : index[At(h.s, k).value] = k
        /\ op = "Init" =>
              /\ OnlyMoves(PosIn(pre.s), h.calls)
              /\ \A k \in 0..(HeapLen(pre) - 1) :
                    ReportedFor(h.calls, At(pre.s, k)) = <<>> =>
                        At(h.s, k) = At(pre.s, k)

\* Init has moved two of three supplied items and left the third alone.
C20_Witness ==
    /\ preset
    /\ op = "Init"
    /\ HeapLen(pre) = 3
    /\ ~HeapInvariant(pre)
    /\ h.calls # <<>>
    /\ \E k \in 0..2 : ReportedFor(h.calls, At(pre.s, k)) = <<>>

\* A later update has moved an item of such a queue.
C20_WitnessLater ==
    /\ preset
    /\ op = "Fix"
    /\ HeapLen(h) >= 2
    /\ h.s # pre.s
    /\ removed # {}

\* The methods of List that take an element or a mark.
Guarded ==
    {"InsertBefore", "InsertAfter", "MoveToFront", "MoveToBack",
     "MoveBefore", "MoveAfter", "Remove"}

IsElement(m, l, x) == \E k \in DOMAIN Order(m, l) : Order(m, l)[k] = x

\* x was passed to the last call and was not an element of its receiver.
NotOfReceiver(x) == x # Nil /\ ~IsElement(lcall.pre, lcall.l, x)

\* C15: InsertBefore, InsertAfter, MoveToFront, MoveToBack, MoveBefore,
\* MoveAfter and Remove called on l with an element or mark that is not an
\* element of l (it belongs to another list, was removed from l, or was
\* dropped from l by Init or Clear) leave the element order and Len() of l
\* unchanged.
C15_MembershipGuard ==
    (lcall.op \in Guarded /\ (NotOfReceiver(lcall.e) \/ NotOfReceiver(lcall.mark))) =>
        /\ Order(ls, lcall.l) = Order(lcall.pre, lcall.l)
        /\ ListLen(ls, lcall.l) = ListLen(lcall.pre, lcall.l)

\* What the guard of the code does cover: an element or mark whose list
\* field is not l, which is so for an element of another list and for a
\* removed one, but not for one dropped by Init or Clear.
C15_GuardByListField ==
    (/\ lcall.op \in Guarded
     /\ \/ lcall.e # Nil /\ lcall.pre.list[lcall.e] # lcall.l
        \/ lcall.mark # Nil /\ lcall.pre.list[lcall.mark] # lcall.l) =>
        ls = lcall.pre

\* An element of the other list was passed, and a removed one.
C15_WitnessOtherList ==
    /\ lcall.op = "Remove"
    /\ lcall.pre.list[lcall.e] \notin {Nil, lcall.l}
    /\ ListLen(ls, lcall.l) >= 1

C15_WitnessRemoved ==
    /\ lcall.op = "InsertAfter"
    /\ lcall.pre.list[lcall.mark] = Nil
    /\ ListLen(ls, lcall.l) >= 1

\* The ring of l in memory m is sound: Len() is not negative and is the
\* number of elements met from Front() with Next() until nil, and every
\* element met has e.next.prev == e and e.prev.next == e.
RingInvariant(m, l) ==
    /\ ListLen(m, l) >= 0
    /\ ListLen(m, l) = Len(Order(m, l))
    /\ \A k \in DOMAIN Order(m, l) :
          LET e == Order(m, l)[k]
          IN /\ m.next[e] # Nil
             /\ m.prev[e] # Nil
             /\ m.prev[m.next[e]] = e
             /\ m.next[m.prev[e]] = e

\* The elements linked from the root of l by their next fields, up to the
\* root again, whatever l.len says; cut off after fuel of them.
RECURSIVE Linked(_, _, _, _)
Linked(m, l, x, fuel) ==
    IF x = Nil \/ x = root(l) \/ fuel = 0 THEN <<>>
    ELSE <<x>> \o Linked(m, l, m.next[x], fuel - 1)

RingOf(m, l) == Linked(m, l, m.next[root(l)], MaxElems + 1)

\* The ring of l is sound in the fields themselves: l is a zero value, or
\* the next fields lead from the root through l.len elements of l back to
\* the root, and prev undoes next at the root and at every element.
Sound(m, l) ==
    \/ /\ m.next[root(l)] = Nil
       /\ m.prev[root(l)] = Nil
       /\ m.len[l] = 0
    \/ LET r == RingOf(m, l)
           ring == {root(l)} \cup {r[k] : k \in DOMAIN r}
       IN /\ m.len[l] = Len(r)
          /\ \A k \in DOMAIN r : m.list[r[k]] = l
          /\ \A x \in ring :
                /\ m.next[x] \in ring
                /\ m.prev[x] \in ring
                /\ m.prev[m.next[x]] = x
                /\ m.next[m.prev[x]] = x

\* x was dropped from l by Init or Clear: its list field is still l, and
\* it is not linked into the ring of l.
Dropped(m, l, x) ==
    /\ x # Nil
    /\ m.list[x] = l
    /\ \A k \in DOMAIN RingOf(m, l) : RingOf(m, l)[k] # x

\* C21: after any sequence of PushFront, PushBack, InsertBefore,
\* InsertAfter, Remove, MoveToFront, MoveToBack, MoveBefore, MoveAfter, Init
\* and Clear on a list l, a Remove of an element obtained before an Init or
\* Clear included, Len() is not negative and equals the number of elements
\* met from Front() with Next() until nil, and every element e of the ring
\* has e.next.prev == e and e.prev.next == e.
C21_RingInvariant ==
    (lcall.plain /\ ~ls.panic) => \A l \in Lists : RingInvariant(ls, l)

\* What the code does keep: a call on sound rings that is not handed an
\* element dropped from its receiver by Init or Clear leaves sound rings.
C21_RingPreserved ==
    (/\ lcall.op # "none"
     /\ \A l \in Lists : Sound(lcall.pre, l)
     /\ ~Dropped(lcall.pre, lcall.l, lcall.e)
     /\ ~Dropped(lcall.pre, lcall.l, lcall.mark)) =>
        /\ ~ls.panic
        /\ \A l \in Lists : Sound(ls, l) /\ RingInvariant(ls, l)

\* An element in the middle of a sound ring of three: a move has put it there.
C21_WitnessSound ==
    /\ lcall.op = "MoveAfter"
    /\ ls # lcall.pre
    /\ \A l \in Lists : Sound(lcall.pre, l)
    /\ ListLen(ls, lcall.l) >= 2
    /\ RingInvariant(ls, lcall.l)

\* Remove of an element obtained before an Init has left Len() negative.
C21_StaleRemove ==
    /\ lcall.op = "Remove"
    /\ Sound(lcall.pre, lcall.l)
    /\ Dropped(lcall.pre, lcall.l, lcall.e)
    /\ ListLen(ls, lcall.l) < 0

====
